---- MODULE Spec2Model ----
(***************************************************************************)
(* FretSight front end: the pitch-to-fingering mapper (utils/guitarUtils), *)
(* the hand-position and active-note resolution of App, the hand controls  *)
(* and the note-trail map of the Fretboard component.                      *)
(*                                                                         *)
(* Playback time is counted in hundredths of a second, wall-clock time in  *)
(* milliseconds.  An optional property that is `undefined` in the source   *)
(* is a field the record does not have; `null` is a record of its own.     *)
(***************************************************************************)
EXTENDS Integers, Sequences, FiniteSets, TLC

(* ------------------------------ bounds -------------------------------- *)
\* pitches tried reach this far below the lowest and above the highest
\* playable pitch
ExtraPitch == 4
\* reference frets tried reach this far below fret 0 and above MAX_FRET
ExtraCenter == 3
\* the wall clock advances by at most ClockStep ms at a time and stops at
\* MaxNow ms
ClockStep == 100
MaxNow == 100
\* the same for the specification of the note trail
TrailStep == 50
TrailMaxNow == 1000
\* the evenly paced playback: wall-clock ms between two ticks, and the
\* number of ticks played
TickInterval == 100
MaxTicks == 18
\* the Player: animation-frame callbacks scheduled at one time
MaxFrames == 2
\* the upload form: requests in flight plus error alerts shown
MaxRequests == 2
\* the recorder: seconds counted by its timer
MaxSeconds == 6

(* --------------------------- guitarUtils ------------------------------ *)
NUM_STRINGS == 6
MAX_FRET == 22
TUNING == <<40, 45, 50, 55, 59, 64>>

\* the `null` returned by getBestPosition
Null == [null |-> TRUE]

Abs(x) == IF x < 0 THEN 0 - x ELSE x

\* the candidate pushed for string index stringIdx (0-based, as in forEach)
candidate(pitch, stringIdx) ==
    [string |-> stringIdx, fret |-> pitch - TUNING[stringIdx + 1], pitch |-> pitch]

\* mutant of fretInRange: the upper limit is not tested
fretInRangeNoUpper(fret) == fret >= 0

\* the test guarding positions.push
fretInRange(fret) == fret >= 0 /\ fret <= MAX_FRET

getPossiblePositions(pitch) ==
    SelectSeq([i \in 1..Len(TUNING) |-> candidate(pitch, i - 1)],
              LAMBDA n : fretInRange(n.fret))

\* mutant of closer: a later candidate at the same distance replaces the
\* earlier one
closerOrEqual(prev, curr, centerFret) ==
    LET prevDist == Abs(prev.fret - centerFret)
        currDist == Abs(curr.fret - centerFret)
    IN  IF currDist <= prevDist THEN curr ELSE prev

\* mutant of closer: the first candidate is kept whatever its distance
keepFirst(prev, curr, centerFret) == prev

\* the reducer callback of getBestPosition
closer(prev, curr, centerFret) ==
    LET prevDist == Abs(prev.fret - centerFret)
        currDist == Abs(curr.fret - centerFret)
    IN  IF currDist < prevDist THEN curr ELSE prev

\* Array.prototype.reduce without an initial value: the accumulator starts
\* as positions[0] and the callback runs from the second element on
RECURSIVE reduceFrom(_, _, _, _)
reduceFrom(positions, i, acc, centerFret) ==
    IF i > Len(positions) THEN acc
    ELSE reduceFrom(positions, i + 1, closer(acc, positions[i], centerFret), centerFret)

\* mutant of getBestPosition: a single candidate is treated like none
bestOfSeveral(pitch, centerFret) ==
    LET positions == getPossiblePositions(pitch)
    IN  IF Len(positions) <= 1 THEN Null
        ELSE reduceFrom(positions, 2, positions[1], centerFret)

getBestPosition(pitch, centerFret) ==
    LET positions == getPossiblePositions(pitch)
    IN  IF Len(positions) = 0 THEN Null
        ELSE reduceFrom(positions, 2, positions[1], centerFret)

(* ----------------------------- state ---------------------------------- *)
VARIABLES
    qPitch,      \* the pitch handed to the mapper
    qCenter,     \* the reference fret handed to the mapper
    qPositions,  \* what getPossiblePositions returned
    qBest,       \* what getBestPosition returned
    qDone,       \* TRUE once the mapper has been applied to (qPitch, qCenter)
    result,            \* App: the analysis result, NoResult while none is loaded
    currentTime,       \* App: playback time last reported by the Player
    isPlaying,         \* App: play/pause flag
    isAutoHand,        \* App: TRUE = automatic hand tracking, FALSE = manual
    manualCenterFret,  \* App: the operator-set center fret
    crashed,           \* App: TRUE once a render has thrown (the tree is gone)
    renderedNotes,     \* Fretboard: the trail map, key <<string, fret>> -> entry
    now,               \* the wall clock read by Date.now(), in ms
    sweepTimers,       \* Fretboard: due times of the armed sweep intervals
    frames,            \* Player: the animation-frame callbacks that are scheduled
    file,              \* App: the file to analyse, 0 for null, 1 for a File
    analyzing,         \* App: the flag shown on the analysis button
    audioUrl,          \* App: 0 for null, 1 for an object URL of the file
    requests,          \* the fetches in flight, each with the answer it will get
    alerts,            \* the number of error alerts shown by handleUpload
    inputMode,         \* App: "upload", "mic" or "system"
    stream,            \* AudioRecorder: TRUE when the stream state is set
    isRecording,       \* AudioRecorder: the recording flag
    duration,          \* AudioRecorder: the seconds counted while recording
    recorder,          \* the MediaRecorder's state, "none" before one is made
    trackLive,         \* TRUE while the captured audio track has not ended
    endedSees,         \* the isRecording that the onended handler closed over
    stopEvent          \* TRUE while a stop event of the MediaRecorder is queued

mapperVars == <<qPitch, qCenter, qPositions, qBest, qDone>>
appVars == <<result, currentTime, isPlaying, isAutoHand, manualCenterFret, crashed>>
\* the components around the visualisation; a specification that does not
\* follow them leaves them as they are at the start
playerVars == <<frames>>
uploadVars == <<file, analyzing, audioUrl, requests, alerts>>
recorderVars == <<stream, isRecording, duration, recorder, trackLive, endedSees, stopEvent>>
sessionVars == <<playerVars, uploadVars, inputMode, recorderVars>>
vars == <<mapperVars, appVars, renderedNotes, now, sweepTimers, sessionVars>>

(* ------------------------ analysis payloads --------------------------- *)
has(rec, field) == field \in DOMAIN rec

\* object spread {...f, ...g}
Spread(f, g) == g @@ f

\* `result` before an analysis has been loaded (useState(null))
NoResult == [loaded |-> FALSE]

\* playback instants the Player reports
Times == {0, 99, 100, 150, 200, 250}

nScenario == [start |-> 100, end |-> 200, pitch |-> 57, velocity |-> 80]
nExplicit == [start |-> 100, end |-> 250, pitch |-> 59, velocity |-> 80,
              string |-> 3, fret |-> 4, bend_value |-> 1]
nFarExplicit == [start |-> 0, end |-> 100, pitch |-> 57, velocity |-> 80,
                 string |-> 0, fret |-> 17]
nTooLow == [start |-> 0, end |-> 150, pitch |-> 30, velocity |-> 80]
nBeyondBoard == [start |-> 99, end |-> 200, pitch |-> 88, velocity |-> 80,
                 string |-> 5, fret |-> 24]
nStringOnly == [start |-> 150, end |-> 250, pitch |-> 64, velocity |-> 80,
                string |-> 1]

\* a second note at the key nScenario resolves to around fret 2
nTwin == [start |-> 150, end |-> 250, pitch |-> 57, velocity |-> 60,
          string |-> 3, fret |-> 2]

NoteLists ==
    { <<>>,
      <<nScenario>>,
      <<nExplicit>>,
      <<nTooLow, nBeyondBoard>>,
      <<nFarExplicit, nStringOnly>>,
      <<nScenario, nTwin>> }

\* hand_positions, ascending by time
HandLists ==
    { <<>>,
      <<[time |-> 100, center_fret |-> 17], [time |-> 150, center_fret |-> 0]>>,
      <<[time |-> 0, center_fret |-> 2], [time |-> 200, center_fret |-> 17]>> }

\* pitch_bends, ascending by time
BendSamples == <<[time |-> 100, pitch |-> 1], [time |-> 200, pitch |-> 0]>>

payload(ns, hs) ==
    [loaded |-> TRUE, duration |-> 3, notes |-> ns, hand_positions |-> hs]

\* what the analysis service answers; pitch_bends is optional
Payloads ==
    { Spread(payload(ns, hs), [pitch_bends |-> BendSamples]) :
        ns \in NoteLists, hs \in HandLists }
    \cup { payload(<<nExplicit>>, <<>>),
           Spread(payload(<<nExplicit>>, <<>>), [pitch_bends |-> <<>>]) }

\* a response that lacks one property
without(rec, field) == [f \in DOMAIN rec \ {field} |-> rec[f]]

\* responses that lack a required property of AnalysisResult
MalformedPayloads ==
    { without(payload(<<nExplicit>>, <<>>), field) :
        field \in {"duration", "notes", "hand_positions"} }

(* ------------------------- App: derived state ------------------------- *)
\* A render of App throws a TypeError when it reads a property of
\* `undefined`: result.hand_positions.filter in automatic mode,
\* result.notes.filter, result.duration.toFixed.  No error boundary is
\* mounted, so the whole tree is unmounted.
renderThrows(res, auto) ==
    /\ res # NoResult
    /\ \/ auto /\ ~has(res, "hand_positions")
       \/ ~has(res, "notes")
       \/ ~has(res, "duration")

\* The memos below are functions of App's state; each is written over the
\* values it reads (res, t, auto, manual) and named after the memo for the
\* current state.
Last(seq) == seq[Len(seq)]

\* mutant of handApplies: a sample taking effect exactly at t is left out
handAppliesStrictly(p, t) == p.time < t

\* the filter predicate of `relevant`
handApplies(p, t) == p.time <= t

\* the automatic branch of currentCenterFret
autoCenterFret(hand_positions, t) ==
    LET relevant == SelectSeq(hand_positions, LAMBDA p : handApplies(p, t))
    IN  IF Len(relevant) > 0 THEN Last(relevant).center_fret ELSE 0

\* mutant of centerFretOf: the manual value is not consulted
centerFretAlwaysAuto(res, t, auto, manual) ==
    IF res = NoResult THEN 2 ELSE autoCenterFret(res.hand_positions, t)

centerFretOf(res, t, auto, manual) ==
    IF res = NoResult THEN 2
    ELSE IF auto THEN autoCenterFret(res.hand_positions, t)
         ELSE manual

currentCenterFret == centerFretOf(result, currentTime, isAutoHand, manualCenterFret)

\* mutant of inTimeWindow: a note ending exactly at t still sounds
inClosedWindow(n, t) == n.start <= t /\ n.end >= t

\* the filter predicate of notesInTime
inTimeWindow(n, t) == n.start <= t /\ n.end > t

notesInTimeOf(res, t) ==
    IF res = NoResult THEN <<>>
    ELSE SelectSeq(res.notes, LAMBDA n : inTimeWindow(n, t))

notesInTime == notesInTimeOf(result, currentTime)

\* mutant of needsRecompute: every note is recomputed
recomputeAlways(n, auto) == TRUE

\* mutant of needsRecompute: manual mode does not force a recomputation
recomputeOnlyUnpositioned(n, auto) == ~has(n, "string") \/ ~has(n, "fret")

\* the condition under which activeNotes recomputes a note's fingering
needsRecompute(n, auto) == ~auto \/ ~has(n, "string") \/ ~has(n, "fret")

\* the callback of notesInTime.map
assignFingering(n, res, t, auto, manual) ==
    IF needsRecompute(n, auto)
    THEN LET targetCenter == IF auto THEN centerFretOf(res, t, auto, manual) ELSE manual
             bestPos == getBestPosition(n.pitch, targetCenter)
         IN  IF bestPos # Null
             THEN Spread(n, [string |-> bestPos.string, fret |-> bestPos.fret])
             ELSE n
    ELSE n

\* mutant of activeNotesOf: the notes are looked up from the previous
\* playback time onwards, so a backward jump finds none
activeNotesForwardOnly(res, t, auto, manual) ==
    LET inTime == IF t < currentTime THEN <<>> ELSE notesInTimeOf(res, t)
    IN  [i \in 1..Len(inTime) |-> assignFingering(inTime[i], res, t, auto, manual)]

activeNotesOf(res, t, auto, manual) ==
    LET inTime == notesInTimeOf(res, t)
    IN  [i \in 1..Len(inTime) |-> assignFingering(inTime[i], res, t, auto, manual)]

activeNotes == activeNotesOf(result, currentTime, isAutoHand, manualCenterFret)

\* mutant of bendApplies: the sample at exactly t is not yet in force
bendAppliesStrictly(b, t) == b.time < t

bendApplies(b, t) == b.time <= t

\* the currentBend memo
currentBendOf(res, t) ==
    IF res = NoResult \/ ~has(res, "pitch_bends") THEN 0
    ELSE LET relevantBends == SelectSeq(res.pitch_bends, LAMBDA b : bendApplies(b, t))
         IN  IF Len(relevantBends) > 0 THEN Last(relevantBends).pitch ELSE 0

currentBend == currentBendOf(result, currentTime)

(* --------------------- Fretboard: active positions -------------------- *)
filterOutOfRange == FALSE

\* `pos` of one note in currentActivePositions
notePos(note, centerFret) ==
    IF has(note, "string") /\ has(note, "fret")
    THEN [string |-> note.string, fret |-> note.fret, pitch |-> note.pitch]
    ELSE getBestPosition(note.pitch, centerFret)

shouldRender(note, pos, centerFret) ==
    IF has(note, "string") THEN TRUE
    ELSE \/ ~filterOutOfRange
         \/ (pos.fret >= centerFret - 1 /\ pos.fret <= centerFret + 5)

\* the template string `${pos.string}-${pos.fret}`: distinct integer pairs
\* give distinct strings, so the pair itself is the key
keyOf(pos) == <<pos.string, pos.fret>>

EmptyMap == [k \in {} |-> Null]

\* mutant of withNote: a key that is already taken keeps its first note
withNoteFirstWins(positions, note, centerFret) ==
    LET pos == getBestPosition(note.pitch, centerFret)
        at == IF has(note, "string") /\ has(note, "fret")
              THEN [string |-> note.string, fret |-> note.fret, pitch |-> note.pitch]
              ELSE pos
    IN  IF at # Null /\ keyOf(at) \notin DOMAIN positions
        THEN Spread(positions,
                    keyOf(at) :> Spread(Spread(at, note), [isFading |-> FALSE]))
        ELSE positions

\* the body of the for loop: positions after `note` has been handled.
\* activeNotes leaves string and fret either both set or as supplied, and a
\* note without both gets a position here only from getBestPosition
withNote(positions, note, centerFret) ==
    LET pos == notePos(note, centerFret)
    IN  IF pos # Null /\ shouldRender(note, pos, centerFret)
        THEN Spread(positions,
                    keyOf(pos) :> Spread(Spread(pos, note), [isFading |-> FALSE]))
        ELSE positions

RECURSIVE positionsFrom(_, _, _, _)
positionsFrom(notes, i, centerFret, positions) ==
    IF i > Len(notes) THEN positions
    ELSE positionsFrom(notes, i + 1, centerFret, withNote(positions, notes[i], centerFret))

activePositionsOf(res, t, auto, manual) ==
    positionsFrom(activeNotesOf(res, t, auto, manual), 1,
                  centerFretOf(res, t, auto, manual), EmptyMap)

currentActivePositions ==
    activePositionsOf(result, currentTime, isAutoHand, manualCenterFret)

(* ----------------------- Fretboard: trail map ------------------------- *)
FadeDuration == 500

\* mutant of expired: the entry is dropped 200 ms too early
expiredEarly(entry, t) ==
    entry.isFading /\ (t - entry.fadeStartTime > FadeDuration - 200)

\* mutant of expired: an entry is dropped as soon as its age reaches the
\* fade duration
expiredAtThreshold(entry, t) ==
    entry.isFading /\ (t - entry.fadeStartTime >= FadeDuration)

expired(entry, t) == entry.isFading /\ (t - entry.fadeStartTime > FadeDuration)

\* mutant of markOrRefresh: the fade is stamped with 0, not with the time
\* of the tick
markUnstamped(entry, key, positions, t) ==
    IF key \notin DOMAIN positions
    THEN IF ~entry.isFading
         THEN Spread(entry, [isFading |-> TRUE, fadeStartTime |-> 0])
         ELSE entry
    ELSE Spread(positions[key], [isFading |-> FALSE])

\* mutant of markOrRefresh: the fade is stamped with the instant at which
\* it will be over
markWithDeadline(entry, key, positions, t) ==
    IF key \notin DOMAIN positions
    THEN IF ~entry.isFading
         THEN Spread(entry, [isFading |-> TRUE, fadeStartTime |-> t + FadeDuration])
         ELSE entry
    ELSE Spread(positions[key], [isFading |-> FALSE])

\* mutant of markOrRefresh: every tick stamps the fading entries anew
markRestamps(entry, key, positions, t) ==
    IF key \notin DOMAIN positions
    THEN Spread(entry, [isFading |-> TRUE, fadeStartTime |-> t])
    ELSE Spread(positions[key], [isFading |-> FALSE])

\* mutant of swept: the sweep drops every fading entry, whatever its age
sweptAllFading(prev, t) == [k \in {j \in DOMAIN prev : ~prev[j].isFading} |-> prev[k]]

\* mutant of markOrRefresh: an entry whose key has left the active set is
\* left as it is
markNever(entry, key, positions, t) ==
    IF key \notin DOMAIN positions
    THEN entry
    ELSE Spread(positions[key], [isFading |-> FALSE])

\* step 1 of the sync effect, for one key already in the map
markOrRefresh(entry, key, positions, t) ==
    IF key \notin DOMAIN positions
    THEN IF ~entry.isFading
         THEN Spread(entry, [isFading |-> TRUE, fadeStartTime |-> t])
         ELSE entry
    ELSE Spread(positions[key], [isFading |-> FALSE])

\* mutant of reconcile: step 2, the adding of new keys, is left out
reconcileNoAdd(prev, positions, t) ==
    LET marked == [k \in DOMAIN prev |-> markOrRefresh(prev[k], k, positions, t)]
        kept == {k \in DOMAIN marked : ~expired(marked[k], t)}
    IN  [k \in kept |-> marked[k]]

\* mutant of reconcile: a fading entry is left alone even when its key is
\* active again
reconcileNoRevive(prev, positions, t) ==
    LET fading == {k \in DOMAIN prev : prev[k].isFading}
        marked == [k \in DOMAIN prev |->
                      IF k \in fading THEN prev[k]
                      ELSE markOrRefresh(prev[k], k, positions, t)]
        added == Spread(marked,
                        [k \in DOMAIN positions \ fading |->
                            Spread(positions[k], [isFading |-> FALSE])])
        kept == {k \in DOMAIN added : ~expired(added[k], t)}
    IN  [k \in kept |-> added[k]]

\* mutant of reconcile: entries that were already fading are dropped
\* before the marking, whatever their age
reconcileDropsFading(prev, positions, t) ==
    LET live == {k \in DOMAIN prev : ~prev[k].isFading}
        marked == [k \in live |-> markOrRefresh(prev[k], k, positions, t)]
        added == Spread(marked,
                        [k \in DOMAIN positions |->
                            Spread(positions[k], [isFading |-> FALSE])])
    IN  added

\* mutant of reconcile: an entry keeps the fadeStartTime it once had, when
\* it is refreshed and when it is marked again
reconcileKeepsStamp(prev, positions, t) ==
    LET marked == [k \in DOMAIN prev |->
                      IF k \in DOMAIN positions
                      THEN Spread(Spread(prev[k], positions[k]), [isFading |-> FALSE])
                      ELSE IF prev[k].isFading THEN prev[k]
                      ELSE IF has(prev[k], "fadeStartTime")
                           THEN Spread(prev[k], [isFading |-> TRUE])
                      ELSE Spread(prev[k], [isFading |-> TRUE, fadeStartTime |-> t])]
        added == Spread([k \in DOMAIN positions |->
                            Spread(positions[k], [isFading |-> FALSE])],
                        marked)
        kept == {k \in DOMAIN added : ~expired(added[k], t)}
    IN  [k \in kept |-> added[k]]

\* the updater passed to setRenderedNotes by the sync effect
reconcile(prev, positions, t) ==
    LET marked == [k \in DOMAIN prev |-> markOrRefresh(prev[k], k, positions, t)]
        added == Spread(marked,
                        [k \in DOMAIN positions |->
                            Spread(positions[k], [isFading |-> FALSE])])
        kept == {k \in DOMAIN added : ~expired(added[k], t)}
    IN  [k \in kept |-> added[k]]

(* ------------------------- Fretboard: render -------------------------- *)
\* `note.bend_value || 0`
storedBend(note) == IF has(note, "bend_value") THEN note.bend_value ELSE 0

\* mutant of dynamicBend: every entry follows the live bend
dynamicBendLive(note, bend) == bend

\* the bend a trail entry is drawn with, given the currentBend prop
dynamicBend(note, bend) == IF ~note.isFading THEN bend ELSE storedBend(note)

\* the updater passed to setRenderedNotes by the interval callback; it
\* returns `prev` itself when nothing has expired
swept(prev, t) == [k \in {j \in DOMAIN prev : ~expired(prev[j], t)} |-> prev[k]]

(* ---------------------- Fretboard: sweep effect ----------------------- *)
SweepInterval == 100

hasFading(map) == \E k \in DOMAIN map : map[k].isFading

\* mutant of clearedTimers: the interval of the previous run is left armed
leakedTimers(timers) == timers

\* the effect's cleanup, clearInterval(interval): the interval the previous
\* run of the effect armed is cleared
clearedTimers(timers) == <<>>

\* mutant of armedFor: no interval is armed
neverArmed(map, t) == <<>>

\* the effect's body: setInterval(..., 100) when some entry is fading
armedFor(map, t) == IF hasFading(map) THEN <<t + SweepInterval>> ELSE <<>>

\* one run of the effect after renderedNotes has changed: the cleanup of
\* the previous run, then the body
sweepEffect(timers, map, t) == clearedTimers(timers) \o armedFor(map, t)

(* ----------------------------- actions -------------------------------- *)
\* AudioRecorder as it is mounted: useState(false), useState(0),
\* useState(null), the refs null
recorderFresh ==
    /\ stream = FALSE /\ isRecording = FALSE /\ duration = 0
    /\ recorder = "none" /\ trackLive = FALSE /\ endedSees = FALSE

\* nothing is scheduled before the first Player is mounted; no file is
\* selected and nothing has been requested
sessionIdle ==
    /\ frames = <<>>
    /\ file = 0 /\ analyzing = FALSE /\ audioUrl = 0
    /\ requests = <<>> /\ alerts = 0
    /\ inputMode = "upload"
    /\ recorderFresh /\ stopEvent = FALSE

Init ==
    /\ qPitch = 0 /\ qCenter = 0 /\ qPositions = <<>> /\ qBest = Null /\ qDone = FALSE
    /\ result = NoResult
    /\ currentTime = 0
    /\ isPlaying = FALSE
    /\ isAutoHand = TRUE
    /\ manualCenterFret = 2
    /\ crashed = FALSE
    /\ renderedNotes = EmptyMap
    /\ now = 0
    /\ sweepTimers = <<>>
    /\ sessionIdle

\* the dependencies of the activeNotes / currentCenterFret memos
memoDeps == <<result, currentTime, isAutoHand, manualCenterFret>>

\* mutant of rerendered: the sync effect computes the next map from the
\* empty map its closure saw at mount, not from the latest map
rerenderedFromStale(res, t, auto, manual) ==
    IF res = NoResult \/ renderThrows(res, auto) THEN EmptyMap
    ELSE IF result = NoResult \/ <<res, t, auto, manual>> # memoDeps
         THEN reconcile(EmptyMap, activePositionsOf(res, t, auto, manual), now)
    ELSE renderedNotes

\* The trail map after a handler has left App's state at (res, t, auto,
\* manual): the Fretboard is mounted while a result is loaded, the memos are
\* recomputed when a dependency has changed, and the sync effect runs on
\* mount and whenever currentActivePositions is recomputed.
rerendered(res, t, auto, manual) ==
    IF res = NoResult \/ renderThrows(res, auto) THEN EmptyMap
    ELSE IF result = NoResult
         THEN reconcile(EmptyMap, activePositionsOf(res, t, auto, manual), now)
    ELSE IF <<res, t, auto, manual>> # memoDeps
         THEN reconcile(renderedNotes, activePositionsOf(res, t, auto, manual), now)
    ELSE renderedNotes

\* The sweep intervals after the same handler: the sweep effect runs again
\* whenever renderedNotes has been replaced, and its cleanup runs when the
\* Fretboard is unmounted.
retimed(res, t, auto, manual) ==
    IF res = NoResult \/ renderThrows(res, auto) THEN clearedTimers(sweepTimers)
    ELSE IF result = NoResult \/ <<res, t, auto, manual>> # memoDeps
         THEN sweepEffect(sweepTimers, rerendered(res, t, auto, manual), now)
    ELSE sweepTimers

\* a handler's state updates, committed in one render: App's state, the
\* Fretboard's sync effect and its sweep effect
commitApp(res, t, playing, auto, manual) ==
    /\ ~crashed
    /\ result' = res
    /\ crashed' = renderThrows(res, auto)
    /\ currentTime' = t
    /\ isPlaying' = playing
    /\ isAutoHand' = auto
    /\ manualCenterFret' = manual
    /\ renderedNotes' = rerendered(res, t, auto, manual)
    /\ sweepTimers' = retimed(res, t, auto, manual)

Commit(res, t, playing, auto, manual) ==
    /\ commitApp(res, t, playing, auto, manual)
    /\ UNCHANGED <<mapperVars, now, sessionVars>>

\* handleUpload, the analysis request answered with a payload; the upload
\* form is shown only while no result is loaded.  The request itself, the
\* analyzing flag and the audio URL are followed in SpecUpload.
analysed(data) ==
    /\ result = NoResult
    /\ Commit(data, currentTime, isPlaying, TRUE, manualCenterFret)

HandleUpload == \E data \in Payloads \cup MalformedPayloads : analysed(data)

\* the Reset button
Reset ==
    /\ result # NoResult
    /\ Commit(NoResult, currentTime, FALSE, isAutoHand, manualCenterFret)

\* Player: the play/pause button, or the audio element's onEnded
PlayPause ==
    /\ result # NoResult
    /\ Commit(result, currentTime, ~isPlaying, isAutoHand, manualCenterFret)

\* Player: one animation frame reporting the audio element's currentTime
TimeUpdate ==
    /\ result # NoResult
    /\ isPlaying
    /\ \E t \in Times :
           Commit(result, t, isPlaying, isAutoHand, manualCenterFret)

SliderMin == 0
SliderMax == 17
\* slider positions the operator drags to
SliderInputs == {SliderMin, 7, SliderMax}

\* HandControls: the AUTO/MANUAL toggle button
ToggleAuto ==
    /\ result # NoResult
    /\ Commit(result, currentTime, isPlaying, ~isAutoHand, manualCenterFret)

\* HandControls: the range input's onChange
SliderChange ==
    /\ result # NoResult
    /\ \E val \in SliderInputs :
           Commit(result, currentTime, isPlaying,
                  IF isAutoHand THEN FALSE ELSE isAutoHand, val)

\* HandControls: the "Resume Auto-Tracking" button, shown in manual mode
ResumeAuto ==
    /\ result # NoResult
    /\ ~isAutoHand
    /\ Commit(result, currentTime, isPlaying, TRUE, manualCenterFret)

Min(S) == CHOOSE x \in S : \A y \in S : x <= y

timerDues == {sweepTimers[i] : i \in 1..Len(sweepTimers)}

\* wall-clock time passes: by `step` ms, or up to the next due time of an
\* armed interval when that comes first; an interval fires when it is due
passTime(step, limit) ==
    /\ \A due \in timerDues : due > now
    /\ Min({now + step} \cup timerDues) <= limit
    /\ now' = Min({now + step} \cup timerDues)
    /\ UNCHANGED <<mapperVars, appVars, renderedNotes, sweepTimers, sessionVars>>

AdvanceClock == passTime(ClockStep, MaxNow)

\* the sweep interval of index i fires
sweepFires(i) ==
    LET next == swept(renderedNotes, now)
        changed == DOMAIN next # DOMAIN renderedNotes
    IN  /\ sweepTimers[i] <= now
        /\ renderedNotes' = IF result = NoResult THEN renderedNotes ELSE next
        /\ sweepTimers' =
              IF result # NoResult /\ changed
              THEN sweepEffect(sweepTimers, next, now)
              ELSE [sweepTimers EXCEPT ![i] = @ + SweepInterval]
        /\ UNCHANGED <<mapperVars, appVars, now, sessionVars>>

\* Fretboard: the callback of the sweep effect's setInterval
Sweep == \E i \in 1..Len(sweepTimers) : sweepFires(i)

Next ==
    \/ HandleUpload
    \/ Reset
    \/ PlayPause
    \/ TimeUpdate
    \/ ToggleAuto
    \/ SliderChange
    \/ ResumeAuto
    \/ Sweep
    \/ AdvanceClock

Spec == Init /\ [][Next]_vars

(* ------------------- the mapper applied to its inputs ----------------- *)
Pitches == (TUNING[1] - ExtraPitch) .. (TUNING[Len(TUNING)] + MAX_FRET + ExtraPitch)
Centers == (0 - ExtraCenter) .. (MAX_FRET + ExtraCenter)

MapperInit ==
    /\ qPitch \in Pitches
    /\ qCenter \in Centers
    /\ qPositions = <<>>
    /\ qBest = Null
    /\ qDone = FALSE
    /\ result = NoResult
    /\ currentTime = 0
    /\ isPlaying = FALSE
    /\ isAutoHand = TRUE
    /\ manualCenterFret = 2
    /\ crashed = FALSE
    /\ renderedNotes = EmptyMap
    /\ now = 0
    /\ sweepTimers = <<>>
    /\ sessionIdle

ApplyMapper ==
    /\ ~qDone
    /\ qPositions' = getPossiblePositions(qPitch)
    /\ qBest' = getBestPosition(qPitch, qCenter)
    /\ qDone' = TRUE
    /\ UNCHANGED <<qPitch, qCenter, appVars, renderedNotes, now, sweepTimers, sessionVars>>

MapperNext == ApplyMapper

SpecMapper == MapperInit /\ [][MapperNext]_vars

(* ------------------------ claims: PitchMapper ------------------------- *)
\* what getPossiblePositions returned, as a set
positionSet == {qPositions[i] : i \in 1..Len(qPositions)}

distance(pos) == Abs(pos.fret - qCenter)

\* the members of positionSet nearest to qCenter
nearest == {q \in positionSet : \A r \in positionSet : distance(q) <= distance(r)}

\* the strings on which qPitch lies within frets 0..MAX_FRET
playableStrings ==
    {s \in 0..(NUM_STRINGS - 1) :
        qPitch - TUNING[s + 1] >= 0 /\ qPitch - TUNING[s + 1] <= MAX_FRET}

C2_TieKeepsLowestString ==
    (qDone /\ Cardinality(nearest) >= 2) =>
        /\ qBest \in nearest
        /\ \A q \in nearest : qBest.string <= q.string

C2_Witness ==
    /\ qDone /\ qPitch = 59 /\ qCenter = 2
    /\ Cardinality(nearest) = 2
    /\ qBest = [string |-> 3, fret |-> 4, pitch |-> 59]

\* C3: getPossiblePositions lists, in ascending string index, exactly the
\* strings on which the pitch lies within frets 0..22, each with the fret
\* that gives the pitch on that string.
C3_PossiblePositionsExact ==
    qDone =>
        /\ \A i \in 1..Len(qPositions) :
              /\ qPositions[i].string \in 0..(NUM_STRINGS - 1)
              /\ qPositions[i].fret \in 0..22
              /\ TUNING[qPositions[i].string + 1] + qPositions[i].fret = qPitch
              /\ qPositions[i].pitch = qPitch
        /\ \A i, j \in 1..Len(qPositions) :
              i < j => qPositions[i].string < qPositions[j].string
        /\ {q.string : q \in positionSet} = playableStrings

C3_Witness ==
    /\ qDone /\ qPitch = 64
    /\ qPositions = << [string |-> 1, fret |-> 19, pitch |-> 64],
                       [string |-> 2, fret |-> 14, pitch |-> 64],
                       [string |-> 3, fret |-> 9, pitch |-> 64],
                       [string |-> 4, fret |-> 5, pitch |-> 64],
                       [string |-> 5, fret |-> 0, pitch |-> 64] >>

\* C8: getBestPosition returns null exactly when the pitch has no possible
\* position, which for the fixed tuning is a pitch below 40 or above 86.
C8_NullIffUnreachable ==
    qDone =>
        /\ (qBest = Null) <=> (qPositions = <<>>)
        /\ (qBest = Null) <=> (qPitch < 40 \/ qPitch > 86)

C8_Witness == qDone /\ qPitch = 87 /\ qCenter = 22 /\ qBest = Null

(* ------------------- claims: resolver and hand tracker ---------------- *)
loaded == result # NoResult /\ ~crashed

Max(S) == CHOOSE x \in S : \A y \in S : y <= x

\* what identifies a note of the payload in the active set and the trail map
core(n) == [start |-> n.start, end |-> n.end, pitch |-> n.pitch, velocity |-> n.velocity]

payloadNotes == {result.notes[i] : i \in 1..Len(result.notes)}

\* note n of the payload is in the sounding set
sounding(n) == \E i \in 1..Len(activeNotes) : core(activeNotes[i]) = core(n)

positioned(n) == has(n, "string") /\ has(n, "fret")

reachable(pitch) ==
    \E s \in 1..NUM_STRINGS : pitch - TUNING[s] >= 0 /\ pitch - TUNING[s] <= 22

\* the trail map holds an ACTIVE entry under key k
activeAt(k) ==
    /\ k \in DOMAIN renderedNotes
    /\ ~renderedNotes[k].isFading
    /\ renderedNotes[k].string = k[1]
    /\ renderedNotes[k].fret = k[2]

\* C4: a note is in the sounding set at playback time t exactly when
\* start <= t < end; the note with start 1.00 and end 2.00 is not sounding
\* at 0.99, is sounding at 1.00 and is not sounding at 2.00.
C4_HalfOpenWindow ==
    loaded =>
        /\ Len(activeNotes) = Len(notesInTime)
        /\ \A n \in payloadNotes :
              sounding(n) <=> (n.start <= currentTime /\ currentTime < n.end)
        /\ (nScenario \in payloadNotes /\ currentTime = 99) => ~sounding(nScenario)
        /\ (nScenario \in payloadNotes /\ currentTime = 100) => sounding(nScenario)
        /\ (nScenario \in payloadNotes /\ currentTime = 200) => ~sounding(nScenario)

C4_Witness ==
    /\ loaded /\ currentTime = 100
    /\ nScenario \in payloadNotes /\ sounding(nScenario)
    /\ nFarExplicit \notin payloadNotes

\* C5: in automatic mode every sounding note that carries both a string and
\* a fret is passed on with that string and fret and is ACTIVE in the trail
\* map under exactly that key, whatever the center fret.
C5_ExplicitKeptInAuto ==
    (loaded /\ isAutoHand) =>
        \A i \in 1..Len(notesInTime) :
            LET n == notesInTime[i]
            IN  positioned(n) =>
                    /\ activeNotes[i].string = n.string
                    /\ activeNotes[i].fret = n.fret
                    /\ <<n.string, n.fret>> \in DOMAIN currentActivePositions
                    /\ activeAt(<<n.string, n.fret>>)

C5_Witness ==
    /\ loaded /\ isAutoHand /\ currentTime = 99
    /\ nFarExplicit \in payloadNotes /\ sounding(nFarExplicit)
    /\ currentCenterFret = 2
    /\ getBestPosition(nFarExplicit.pitch, currentCenterFret).fret = 2
    /\ activeAt(<<0, 17>>)

\* the center fret a recomputation aims at
targetCenter ==
    IF isAutoHand THEN autoCenterFret(result.hand_positions, currentTime)
    ELSE manualCenterFret

\* C6: a sounding note with a reachable pitch, in manual mode or lacking a
\* string or a fret, is rendered at getBestPosition(pitch, targetCenter),
\* targetCenter being the automatic center fret in automatic mode and the
\* manual value in manual mode.
C6_RecomputedAtBest ==
    loaded =>
        \A i \in 1..Len(notesInTime) :
            LET n == notesInTime[i]
                best == getBestPosition(n.pitch, targetCenter)
            IN  (reachable(n.pitch) /\ (~isAutoHand \/ ~positioned(n))) =>
                    /\ activeNotes[i].string = best.string
                    /\ activeNotes[i].fret = best.fret
                    /\ activeAt(<<best.string, best.fret>>)

C6_Witness ==
    /\ loaded /\ ~isAutoHand /\ manualCenterFret = 0
    /\ nExplicit \in payloadNotes /\ sounding(nExplicit)
    /\ activeAt(<<4, 0>>)
    /\ <<3, 4>> \notin DOMAIN currentActivePositions

\* C7: a sounding note whose position is recomputed (manual mode, or no
\* complete fingering supplied) and for which getBestPosition returns null
\* has no key in the active set and no ACTIVE entry in the trail map.
C7_UnresolvableDropped ==
    loaded =>
        \A i \in 1..Len(notesInTime) :
            LET n == notesInTime[i]
            IN  ((~isAutoHand \/ ~positioned(n))
                    /\ getBestPosition(n.pitch, targetCenter) = Null) =>
                    /\ \A k \in DOMAIN currentActivePositions :
                          core(currentActivePositions[k]) # core(n)
                    /\ \A k \in DOMAIN renderedNotes :
                          ~renderedNotes[k].isFading => core(renderedNotes[k]) # core(n)

\* C9: in automatic mode with a result loaded, the center fret is the
\* center_fret of the last hand position with time <= t, and 0 when there
\* is none.
C9_AutoCenterFret ==
    (loaded /\ isAutoHand) =>
        LET hs == result.hand_positions
            upTo == {i \in 1..Len(hs) : hs[i].time <= currentTime}
        IN  currentCenterFret = IF upTo = {} THEN 0 ELSE hs[Max(upTo)].center_fret

C9_Witness ==
    /\ loaded /\ isAutoHand /\ currentTime = 150
    /\ Len(result.hand_positions) = 2
    /\ result.hand_positions[1] = [time |-> 100, center_fret |-> 17]
    /\ result.hand_positions[2].time = 150
    /\ currentCenterFret = 0

\* C10 as stated: in manual mode the center fret equals the manual value,
\* which lies in 0..17.
C10_ManualCenterAlways ==
    /\ manualCenterFret \in 0..17
    /\ ~isAutoHand => currentCenterFret = manualCenterFret

\* C10, amended: the manual value is 2 at first, always lies in 0..17 and
\* changes only in a step of the slider; while a result is loaded and the
\* mode is manual the center fret equals it, whatever the playback time and
\* the hand positions.
C10_ManualCenterWhileLoaded ==
    /\ manualCenterFret = 2
    /\ [](manualCenterFret \in 0..17)
    /\ []((loaded /\ ~isAutoHand) => currentCenterFret = manualCenterFret)
    /\ [][manualCenterFret' # manualCenterFret => SliderChange]_vars
    /\ [][(isAutoHand' # isAutoHand /\ ~SliderChange)
             => manualCenterFret' = manualCenterFret]_vars

C10_Witness ==
    /\ loaded /\ ~isAutoHand /\ manualCenterFret = 17 /\ currentTime = 150
    /\ currentCenterFret = 17
    /\ autoCenterFret(result.hand_positions, currentTime) = 0

(* ------------------- specification of the note trail ------------------ *)
\* The upload, Reset and the player over one payload and a finer clock, so
\* that trail entries live through their whole fade; the hand controls are
\* left alone.
TrailPayloads == {payload(<<nFarExplicit, nExplicit>>, <<>>)}

TrailUpload == \E data \in TrailPayloads : analysed(data)

TrailClock == passTime(TrailStep, TrailMaxNow)

TrailNext ==
    \/ TrailUpload
    \/ Reset
    \/ PlayPause
    \/ TimeUpdate
    \/ Sweep
    \/ TrailClock

SpecTrail == Init /\ [][TrailNext]_vars

\* the event loop runs the callback of an interval that is due, and time
\* passes
SpecTrailFair == SpecTrail /\ WF_vars(Sweep) /\ WF_vars(TrailClock)

(* ------------------ specification of a paced playback ----------------- *)
\* Playback that reports a new time every TickInterval ms of wall clock:
\* tick n happens at wall-clock time n * TickInterval and reports the
\* playback time tickTime(n).  The first note of the payload sounds at
\* ticks 1 to 10 and no longer at tick 11.
tickTime(n) == n * (TickInterval \div 10)

nTenTicks == [start |-> tickTime(1), end |-> tickTime(11), pitch |-> 59,
              velocity |-> 80, string |-> 3, fret |-> 4]
nTenTicksFree == [start |-> tickTime(1), end |-> tickTime(11), pitch |-> 57,
                  velocity |-> 80]
nHeld == [start |-> tickTime(1), end |-> tickTime(MaxTicks + 2), pitch |-> 64,
          velocity |-> 80, string |-> 5, fret |-> 0]

PacedPayloads ==
    { payload(<<nTenTicks>>, <<>>),
      payload(<<nTenTicksFree>>, <<>>),
      payload(<<nTenTicks, nHeld>>, <<>>) }

\* the number of the last tick
tickNo == currentTime \div tickTime(1)

\* a result is loaded and playback has just started, in either mode
pacedInit(payloads) ==
    /\ qPitch = 0 /\ qCenter = 0 /\ qPositions = <<>> /\ qBest = Null
    /\ qDone = FALSE
    /\ result \in payloads
    /\ currentTime = 0
    /\ isPlaying = TRUE
    /\ isAutoHand \in BOOLEAN
    /\ manualCenterFret \in {2} \cup SliderInputs
    /\ crashed = FALSE
    /\ now = 0
    /\ renderedNotes = reconcile(EmptyMap, currentActivePositions, now)
    /\ sweepTimers = <<>>
    /\ sessionIdle

PacedInit == pacedInit(PacedPayloads)

\* Player: the frame that reports the next playback time
PacedTick ==
    /\ tickNo < MaxTicks
    /\ now = (tickNo + 1) * TickInterval
    /\ Commit(result, tickTime(tickNo + 1), isPlaying, isAutoHand, manualCenterFret)

\* time passes up to the next tick
PacedClock ==
    /\ now < (tickNo + 1) * TickInterval
    /\ passTime(TickInterval, (tickNo + 1) * TickInterval)

PacedNext == PacedTick \/ Sweep \/ PacedClock

SpecPaced == PacedInit /\ [][PacedNext]_vars

\* The same paced playback over a piece that plays one position twice: the
\* first note sounds at ticks 1 and 2, the second at ticks 4 and 5.
nFirstVisit == [start |-> tickTime(1), end |-> tickTime(3), pitch |-> 59,
                velocity |-> 80, string |-> 3, fret |-> 4]
nSecondVisit == [start |-> tickTime(4), end |-> tickTime(6), pitch |-> 59,
                 velocity |-> 70, string |-> 3, fret |-> 4]
nFirstVisitFree == [start |-> tickTime(1), end |-> tickTime(3), pitch |-> 57,
                    velocity |-> 80]
nSecondVisitFree == [start |-> tickTime(4), end |-> tickTime(6), pitch |-> 57,
                     velocity |-> 70]

ReprisePayloads ==
    { payload(<<nFirstVisit, nSecondVisit>>, <<>>),
      payload(<<nFirstVisitFree, nSecondVisitFree>>, <<>>) }

RepriseInit == pacedInit(ReprisePayloads)

SpecReprise == RepriseInit /\ [][PacedNext]_vars

(* --------------- specification of a moving hand position -------------- *)
\* One piece under every control: an unpositioned note held from 0 to 250
\* and a note supplied at string 0, fret 17 from 100 to 250, while the
\* automatic center fret goes from 2 to 17 (at 150) and to 7 (at 200).  The
\* unpositioned note is resolved at frets 2, 17 and 7 of three strings.
nMoving == [start |-> 0, end |-> 250, pitch |-> 57, velocity |-> 80]
nAnchored == [start |-> 100, end |-> 250, pitch |-> 57, velocity |-> 60,
              string |-> 0, fret |-> 17]

ShiftHands ==
    << [time |-> 0, center_fret |-> 2], [time |-> 150, center_fret |-> 17],
       [time |-> 200, center_fret |-> 7] >>

\* the two notes in either order of the note list
ShiftPayloads ==
    { payload(<<nMoving, nAnchored>>, ShiftHands),
      payload(<<nAnchored, nMoving>>, ShiftHands) }

ShiftUpload == \E data \in ShiftPayloads : analysed(data)

ShiftNext ==
    \/ ShiftUpload
    \/ Reset
    \/ PlayPause
    \/ TimeUpdate
    \/ ToggleAuto
    \/ SliderChange
    \/ ResumeAuto
    \/ Sweep
    \/ AdvanceClock

SpecShift == Init /\ [][ShiftNext]_vars

(* ---------------- specification of the Player's frames --------------- *)
\* A scheduled animation-frame callback of `update`.  `mounted` tells
\* whether the Player that requested it is mounted, so that its
\* audioRef.current is the audio element and not null; `current` whether
\* its handle is the one the mounted Player holds in requestRef.current.
frame(mounted, current) == [mounted |-> mounted, current |-> current]

remove(seq, i) == SubSeq(seq, 1, i - 1) \o SubSeq(seq, i + 1, Len(seq))

\* requestRef.current = requestAnimationFrame(update), in the mounted Player
requested(fr) ==
    [i \in 1..Len(fr) |-> IF fr[i].mounted THEN frame(TRUE, FALSE) ELSE fr[i]]
        \o <<frame(TRUE, TRUE)>>

startTimer(fr) == requested(fr)

\* cancelAnimationFrame(requestRef.current) when requestRef.current is set;
\* a handle whose callback has run or was cancelled cancels nothing
stopTimer(fr) == SelectSeq(fr, LAMBDA f : ~(f.mounted /\ f.current))

\* the effect with dependency [isPlaying]; it returns no cleanup
playEffect(fr, playing) == IF playing THEN startTimer(fr) ELSE stopTimer(fr)

\* the Player is unmounted: nothing is cancelled, and React sets its
\* audioRef.current to null
unmounted(fr) == [i \in 1..Len(fr) |-> frame(FALSE, FALSE)]

\* callback i has run: `update` requests the next frame
rerequested(fr, i) ==
    IF fr[i].mounted THEN requested(remove(fr, i))
    ELSE remove(fr, i) \o <<frame(FALSE, FALSE)>>

PlayerPayloads ==
    { payload(<<nFarExplicit, nExplicit>>, <<>>),
      payload(<<nScenario, nTwin>>, <<>>) }

\* handleUpload answered: the Player is mounted and its effects run
MountPlayer ==
    /\ result = NoResult
    /\ \E data \in PlayerPayloads :
           commitApp(data, currentTime, isPlaying, TRUE, manualCenterFret)
    /\ frames' = playEffect(frames, isPlaying)
    /\ UNCHANGED <<mapperVars, now, uploadVars, inputMode, recorderVars>>

\* the play/pause button or the audio element's onEnded, then the effect
TogglePlay ==
    /\ result # NoResult
    /\ ~isPlaying => Len(frames) < MaxFrames
    /\ commitApp(result, currentTime, ~isPlaying, isAutoHand, manualCenterFret)
    /\ frames' = playEffect(frames, ~isPlaying)
    /\ UNCHANGED <<mapperVars, now, uploadVars, inputMode, recorderVars>>

\* the browser runs a scheduled callback: `update` reports the time of the
\* audio element if audioRef.current is set, and requests the next frame
runFrame(i) ==
    /\ IF frames[i].mounted
       THEN \E t \in Times :
                commitApp(result, t, isPlaying, isAutoHand, manualCenterFret)
       ELSE UNCHANGED <<appVars, renderedNotes, sweepTimers>>
    /\ frames' = rerequested(frames, i)
    /\ UNCHANGED <<mapperVars, now, uploadVars, inputMode, recorderVars>>

AnimationFrame == \E i \in 1..Len(frames) : runFrame(i)

\* the Reset button: the Player is unmounted with the visualisation
ResetPlayer ==
    /\ result # NoResult
    /\ commitApp(NoResult, currentTime, FALSE, isAutoHand, manualCenterFret)
    /\ frames' = unmounted(frames)
    /\ UNCHANGED <<mapperVars, now, uploadVars, inputMode, recorderVars>>

PlayerNext ==
    \/ MountPlayer
    \/ TogglePlay
    \/ AnimationFrame
    \/ ResetPlayer

SpecPlayer == Init /\ [][PlayerNext]_vars

(* --------------- specification of the analysis requests --------------- *)
\* what becomes of a fetch: the promise is rejected, the response is not
\* OK, the body of an OK response is not JSON, or it is an analysis
Outcomes == {"network error", "error status", "unparsable body", "ok"}

UploadPayloads == {payload(<<nExplicit>>, <<>>), payload(<<nScenario>>, <<>>)}

\* the file input's onChange, shown while no file is selected
ChooseFile ==
    /\ result = NoResult /\ file = 0 /\ inputMode = "upload"
    /\ file' = 1
    /\ UNCHANGED <<mapperVars, appVars, renderedNotes, now, sweepTimers,
                   playerVars, analyzing, audioUrl, requests, alerts,
                   inputMode, recorderVars>>

\* the Remove button
RemoveFile ==
    /\ result = NoResult /\ file # 0 /\ inputMode = "upload"
    /\ file' = 0
    /\ UNCHANGED <<mapperVars, appVars, renderedNotes, now, sweepTimers,
                   playerVars, analyzing, audioUrl, requests, alerts,
                   inputMode, recorderVars>>

\* handleUpload up to its first await: the button is shown while no result
\* is loaded and is not disabled while a request is in flight; without a
\* file the handler returns at once
StartAnalysis ==
    /\ result = NoResult /\ file # 0 /\ inputMode = "upload"
    /\ Len(requests) + alerts < MaxRequests
    /\ analyzing' = TRUE
    /\ \E o \in Outcomes : requests' = Append(requests, [file |-> file, outcome |-> o])
    /\ UNCHANGED <<mapperVars, appVars, renderedNotes, now, sweepTimers,
                   playerVars, file, audioUrl, alerts, inputMode, recorderVars>>

\* mutant of analyzingAfter: setAnalyzing(false) is the last statement of
\* the try block
analyzingAfterTry(outcome) == outcome # "ok"

\* the finally block
analyzingAfter(outcome) == FALSE

\* handleUpload from the answer of the fetch to its end
answered(i) ==
    /\ requests' = remove(requests, i)
    /\ analyzing' = analyzingAfter(requests[i].outcome)
    /\ IF requests[i].outcome = "ok"
       THEN /\ \E data \in UploadPayloads :
                   commitApp(data, currentTime, isPlaying, TRUE, manualCenterFret)
            /\ audioUrl' = requests[i].file
            /\ UNCHANGED alerts
       ELSE /\ alerts' = alerts + 1
            /\ UNCHANGED <<appVars, renderedNotes, sweepTimers, audioUrl>>
    /\ UNCHANGED <<mapperVars, now, playerVars, file, inputMode, recorderVars>>

Answer == \E i \in 1..Len(requests) : answered(i)

UploadNext ==
    \/ ChooseFile
    \/ RemoveFile
    \/ StartAnalysis
    \/ Answer
    \/ Reset
    \/ ToggleAuto

SpecUpload == Init /\ [][UploadNext]_vars

(* ------------------ specification of the AudioRecorder ---------------- *)
\* everything but the recorder and what it hands to App
offRecorder ==
    <<mapperVars, appVars, renderedNotes, now, sweepTimers, playerVars,
      analyzing, audioUrl, requests, alerts>>

\* the AudioRecorder is unmounted; the next one starts from its initial
\* state.  A MediaRecorder that was stopped still fires its stop event.
recorderUnmounted ==
    /\ stream' = FALSE /\ isRecording' = FALSE /\ duration' = 0
    /\ recorder' = "none" /\ trackLive' = FALSE /\ endedSees' = FALSE

\* the Microphone and Browser Audio buttons, shown while no file is selected
SelectSource ==
    /\ result = NoResult /\ file = 0 /\ inputMode = "upload"
    /\ inputMode' \in {"mic", "system"}
    /\ UNCHANGED <<offRecorder, file, recorderVars>>

\* the Cancel buttons; the one beside REC is disabled while recording
CancelSource ==
    /\ inputMode # "upload" /\ ~isRecording
    /\ inputMode' = "upload"
    /\ recorderUnmounted
    /\ UNCHANGED <<offRecorder, file, stopEvent>>

\* setupStream with access granted and an audio track captured; for the
\* system source the onended handler is installed, and it reads the
\* isRecording of the render in which setupStream was called
SetupStream ==
    /\ inputMode # "upload" /\ ~stream
    /\ stream' = TRUE
    /\ trackLive' = TRUE
    /\ endedSees' = IF inputMode = "system" THEN isRecording ELSE endedSees
    /\ UNCHANGED <<offRecorder, file, inputMode, isRecording, duration,
                   recorder, stopEvent>>

\* the REC button
StartRecording ==
    /\ stream /\ ~isRecording
    /\ recorder' = "recording"
    /\ isRecording' = TRUE
    /\ UNCHANGED <<offRecorder, file, inputMode, stream, duration, trackLive,
                   endedSees, stopEvent>>

\* stopRecording
stopRecording ==
    IF recorder = "recording"
    THEN recorder' = "inactive" /\ stopEvent' = TRUE /\ isRecording' = FALSE
    ELSE UNCHANGED <<recorder, stopEvent, isRecording>>

\* the STOP button, shown while recording
PressStop ==
    /\ stream /\ isRecording
    /\ stopRecording
    /\ UNCHANGED <<offRecorder, file, inputMode, stream, duration, trackLive,
                   endedSees>>

\* the captured track ends (the sharing is stopped) and its onended
\* handler, if one is installed, runs
TrackEnds ==
    /\ stream /\ trackLive
    /\ trackLive' = FALSE
    /\ IF inputMode = "system" /\ endedSees
       THEN stopRecording
       ELSE UNCHANGED <<recorder, stopEvent, isRecording>>
    /\ UNCHANGED <<offRecorder, file, inputMode, stream, duration, endedSees>>

\* the browser may itself end a recording whose tracks have all ended
BrowserStops ==
    /\ recorder = "recording" /\ ~trackLive
    /\ recorder' = "inactive"
    /\ stopEvent' = TRUE
    /\ UNCHANGED <<offRecorder, file, inputMode, stream, isRecording, duration,
                   trackLive, endedSees>>

\* mediaRecorder.onstop: the file goes to handleRecordingComplete, which
\* sets the file and goes back to the upload form
RecorderStopped ==
    /\ stopEvent
    /\ stopEvent' = FALSE
    /\ file' = 1
    /\ inputMode' = "upload"
    /\ recorderUnmounted
    /\ UNCHANGED offRecorder

\* the interval armed by the effect on [isRecording]
RecordingSecond ==
    /\ isRecording /\ duration < MaxSeconds
    /\ duration' = duration + 1
    /\ UNCHANGED <<offRecorder, file, inputMode, stream, isRecording, recorder,
                   trackLive, endedSees, stopEvent>>

RecorderNext ==
    \/ SelectSource
    \/ CancelSource
    \/ SetupStream
    \/ StartRecording
    \/ PressStop
    \/ TrackEnds
    \/ BrowserStops
    \/ RecorderStopped
    \/ RecordingSecond
    \/ RemoveFile

SpecRecorder == Init /\ [][RecorderNext]_vars

(* ------------------------- claims: HandTracker mode -------------------- *)
\* C11: the hand-tracking mode changes only in a step of the hand controls
\* (the toggle, a slider drag, the resume button); no arrival of analysis
\* data, playback-time update or play/pause step changes it.
C11_ModeOnlyByHandControls ==
    [][isAutoHand' # isAutoHand => (ToggleAuto \/ SliderChange \/ ResumeAuto)]_vars

(* --------------------------- claims: BendOverlay ----------------------- *)
\* the indices of the bend samples with time <= t
bendsUpTo(t) == {i \in 1..Len(result.pitch_bends) : result.pitch_bends[i].time <= t}

\* C12: the bend at the playback time is the pitch of the last bend sample
\* with time <= t, and 0 when there is no such sample or the payload has no
\* pitch_bends.
C12_BendIsLastSample ==
    loaded =>
        IF has(result, "pitch_bends") /\ bendsUpTo(currentTime) # {}
        THEN currentBend = result.pitch_bends[Max(bendsUpTo(currentTime))].pitch
        ELSE currentBend = 0

C12_Witness ==
    /\ loaded /\ has(result, "pitch_bends")
    /\ currentTime = 100
    /\ result.pitch_bends[1].time = 100
    /\ currentBend = 1

\* the bend_value of a Note record of the payload, 0 when it has none
noteBend(n) == IF has(n, "bend_value") THEN n.bend_value ELSE 0

\* C13: an ACTIVE trail entry is drawn with the live bend; a FADING entry is
\* drawn with the bend_value of its Note record (0 when the record has
\* none), whatever the live bend is or becomes.
C13_BendOnlyOnActive ==
    \A k \in DOMAIN renderedNotes :
        LET e == renderedNotes[k]
        IN  IF e.isFading
            THEN \E n \in payloadNotes :
                     /\ core(n) = core(e)
                     /\ \A t \in Times :
                            dynamicBend(e, currentBendOf(result, t)) = noteBend(n)
            ELSE dynamicBend(e, currentBend) = currentBend

C13_Witness ==
    /\ loaded /\ has(result, "pitch_bends") /\ Len(result.pitch_bends) = 2
    /\ currentTime = 200 /\ currentBend = 0
    /\ \E k \in DOMAIN renderedNotes :
           /\ renderedNotes[k].isFading
           /\ core(renderedNotes[k]) = core(nExplicit)
           /\ dynamicBend(renderedNotes[k], currentBend) = 1
    /\ \E k \in DOMAIN renderedNotes :
           /\ ~renderedNotes[k].isFading
           /\ dynamicBend(renderedNotes[k], currentBend) = 0

(* --------------------------- claims: note trail ------------------------ *)
activeKeys == {k \in DOMAIN renderedNotes : ~renderedNotes[k].isFading}

fadingKeys == {k \in DOMAIN renderedNotes : renderedNotes[k].isFading}

age(k) == now - renderedNotes[k].fadeStartTime

\* a step in which the sync effect runs on a mounted Fretboard
tick ==
    /\ result # NoResult /\ result' # NoResult
    /\ <<result', currentTime', isAutoHand', manualCenterFret'>> # memoDeps

\* the active set supplied to the sync effect of a step
suppliedKeys == DOMAIN activePositionsOf(result', currentTime', isAutoHand', manualCenterFret')

\* C14: while a result is loaded, after every tick and after every sweep
\* that follows it, the ACTIVE keys of the trail map are exactly the keys of
\* the active set of the last tick, and each holds that set's attributes.
C14_ActiveKeysAreActiveSet ==
    loaded =>
        /\ activeKeys = DOMAIN currentActivePositions
        /\ \A k \in activeKeys :
               renderedNotes[k] = Spread(currentActivePositions[k], [isFading |-> FALSE])

C14_Witness ==
    /\ loaded /\ currentTime = 150
    /\ activeKeys = {<<3, 4>>}
    /\ renderedNotes[<<3, 4>>].bend_value = 1
    /\ fadingKeys = {<<0, 17>>} /\ age(<<0, 17>>) = 500
    /\ sweepTimers = <<now + SweepInterval>>

\* C15: a key that is ACTIVE before a tick and not in the active set of the
\* tick is FADING after it, with fadeStartTime the wall-clock time of the
\* tick, and is still in the map.
C15_FadeStampedAtTick ==
    [][tick =>
          \A k \in activeKeys :
              k \notin suppliedKeys =>
                  /\ k \in DOMAIN renderedNotes'
                  /\ renderedNotes'[k].isFading
                  /\ renderedNotes'[k].fadeStartTime = now
                  /\ now' = now]_vars

C15_Witness ==
    /\ loaded /\ currentTime = 250 /\ now = 150
    /\ <<3, 4>> \in fadingKeys
    /\ renderedNotes[<<3, 4>>].fadeStartTime = 150

\* C16: a key that is FADING before a tick and in the active set of the
\* tick is ACTIVE after it, with isFading false and no fadeStartTime, however
\* long it has been fading; and a key of the active set is never missing
\* from the map, sweeps included.
C16_FadingKeyRevived ==
    /\ [][tick =>
             \A k \in fadingKeys :
                 k \in suppliedKeys =>
                     /\ k \in DOMAIN renderedNotes'
                     /\ ~renderedNotes'[k].isFading
                     /\ ~has(renderedNotes'[k], "fadeStartTime")]_vars
    /\ [](loaded => \A k \in DOMAIN currentActivePositions :
                        /\ k \in DOMAIN renderedNotes
                        /\ ~has(renderedNotes[k], "fadeStartTime"))

\* a key that has been fading for longer than the fade duration is still in
\* the map, and the player can report a time at which it is active again
C16_Witness ==
    /\ loaded /\ isPlaying
    /\ <<0, 17>> \in fadingKeys /\ age(<<0, 17>>) > FadeDuration
    /\ <<0, 17>> \in DOMAIN activePositionsOf(result, 0, isAutoHand, manualCenterFret)

\* C17: while the Fretboard stays mounted, a FADING key is taken out of the
\* map only once more than fadeDuration has passed since its fade began,
\* and no FADING key is in the map later than fadeDuration plus one sweep
\* interval after its fade began.
C17_FadeWindow ==
    /\ [][result' # NoResult =>
             \A k \in fadingKeys :
                 k \notin DOMAIN renderedNotes' => age(k) > FadeDuration]_vars
    /\ [](\A k \in fadingKeys : age(k) <= FadeDuration + SweepInterval)

C17_Witness ==
    /\ loaded
    /\ \E k \in fadingKeys : age(k) = FadeDuration + SweepInterval
    /\ \E k \in fadingKeys : age(k) < FadeDuration

\* C20: a sweep interval is armed exactly when the Fretboard is mounted and
\* the map holds a FADING key, and never more than one is armed.
C20_OneTimerIffFading ==
    /\ Len(sweepTimers) <= 1
    /\ sweepTimers # <<>> <=> (loaded /\ fadingKeys # {})

C20_Witness ==
    /\ loaded /\ Cardinality(fadingKeys) = 2
    /\ Len(sweepTimers) = 1 /\ sweepTimers[1] = now
    /\ \E k \in fadingKeys : age(k) > FadeDuration

\* the FADING keys whose fade began early enough for the clock of the
\* specification to outlast it
earlyFading ==
    {k \in fadingKeys :
        renderedNotes[k].fadeStartTime + FadeDuration + SweepInterval <= TrailMaxNow}

\* C19: with the clock advancing and the sweep interval run whenever it is
\* due, the keys that are FADING do not stay FADING: without a further tick
\* the only way out is removal by the sweep.
C19_FadingEventuallyRemoved == (earlyFading # {}) ~> (earlyFading = {})

C19_Witness ==
    /\ loaded /\ ~isPlaying
    /\ Cardinality(earlyFading) = 2
    /\ sweepTimers # <<>>

\* the first note of the payload has an entry in the trail map
firstNoteInMap ==
    \E k \in DOMAIN renderedNotes : core(renderedNotes[k]) = core(result.notes[1])

\* C18: with ticks 100 ms apart and a note active at ticks 1 to 10 only,
\* the note's key is ACTIVE after ticks 1 to 10, still in the map after
\* ticks 11 to 15, and out of the map after tick 17 (it goes at tick 16 or
\* tick 17).
C18_RemovedAtTick16Or17 ==
    /\ tickNo \in 1..10 =>
           \E k \in activeKeys : core(renderedNotes[k]) = core(result.notes[1])
    /\ tickNo \in 11..15 =>
           \E k \in fadingKeys : core(renderedNotes[k]) = core(result.notes[1])
    /\ tickNo >= 17 => ~firstNoteInMap

C18_Witness ==
    /\ tickNo = 16 /\ now = 17 * TickInterval
    /\ firstNoteInMap
    /\ \E k \in fadingKeys : age(k) = FadeDuration + SweepInterval

(* ---------------------- claims: reconciliation ------------------------- *)
\* the active sets a tick can supply in the current mode
activeSetsNow ==
    {activePositionsOf(result, t, isAutoHand, manualCenterFret) : t \in Times}

\* C21: reconciling the trail map twice with the same active set at the
\* same wall-clock instant gives the same map as reconciling it once,
\* fadeStartTime of the FADING entries included.
C21_ReconcileIdempotent ==
    loaded =>
        \A A \in activeSetsNow :
            reconcile(reconcile(renderedNotes, A, now), A, now)
                = reconcile(renderedNotes, A, now)

\* a map and an active set for which the reconciliation marks a key, keeps
\* a fading one and drops an expired one
C21_Witness ==
    /\ loaded
    /\ \E k \in fadingKeys : age(k) > FadeDuration
    /\ \E A \in activeSetsNow :
           /\ \E k \in activeKeys : k \notin DOMAIN A
           /\ reconcile(renderedNotes, A, now) # renderedNotes
           /\ \E k \in DOMAIN reconcile(renderedNotes, A, now) :
                  reconcile(renderedNotes, A, now)[k].isFading

\* the keys of the map that have been fading for longer than the fade
\* duration
expiredKeys == {k \in fadingKeys : age(k) > FadeDuration}

\* C22: every tick and every sweep is one read-modify-write of the latest
\* map.  A tick leaves every key of its active set ACTIVE and every other
\* previously ACTIVE key FADING, loses no entry that has not expired and
\* brings in no key outside its active set; a sweep brings in no key and
\* alters no entry it keeps; a key of the last active set is never missing.
C22_NoLostUpdate ==
    /\ [][tick =>
             /\ \A k \in suppliedKeys :
                    k \in DOMAIN renderedNotes' /\ ~renderedNotes'[k].isFading
             /\ \A k \in activeKeys \ suppliedKeys :
                    k \in DOMAIN renderedNotes' /\ renderedNotes'[k].isFading
             /\ \A k \in DOMAIN renderedNotes \ DOMAIN renderedNotes' :
                    k \in expiredKeys
             /\ \A k \in fadingKeys \ (expiredKeys \cup suppliedKeys) :
                    renderedNotes'[k] = renderedNotes[k]
             /\ DOMAIN renderedNotes' \ DOMAIN renderedNotes \subseteq suppliedKeys]_vars
    /\ [][Sweep =>
             /\ DOMAIN renderedNotes' \subseteq DOMAIN renderedNotes
             /\ \A k \in DOMAIN renderedNotes' : renderedNotes'[k] = renderedNotes[k]
             /\ activeKeys \subseteq DOMAIN renderedNotes']_vars
    /\ [](loaded => DOMAIN currentActivePositions \subseteq activeKeys)

\* a sweep is due at an instant at which the player can also tick, with an
\* ACTIVE key, an expired key and an unexpired FADING key in the map
C22_Witness ==
    /\ loaded /\ isPlaying
    /\ sweepTimers # <<>> /\ sweepTimers[1] <= now
    /\ activeKeys # {}
    /\ expiredKeys # {}

\* C23: every key of the trail map is a position of the fretboard: string
\* in 0..5 and fret in 0..MAX_FRET.
C23_KeysOnBoard ==
    \A k \in DOMAIN renderedNotes :
        /\ k[1] \in 0..(NUM_STRINGS - 1)
        /\ k[2] \in 0..MAX_FRET

\* C24: every entry of the trail map is either ACTIVE (isFading false, no
\* fadeStartTime) or FADING (isFading true, fadeStartTime recorded and not
\* later than the wall clock), and the entry under key <<s, f>> has string s
\* and fret f.
C24_EntryStates ==
    \A k \in DOMAIN renderedNotes :
        LET e == renderedNotes[k]
        IN  /\ e.isFading \in BOOLEAN
            /\ ~e.isFading => ~has(e, "fadeStartTime")
            /\ e.isFading => has(e, "fadeStartTime") /\ e.fadeStartTime <= now
            /\ has(e, "string") /\ has(e, "fret")
            /\ e.string = k[1] /\ e.fret = k[2]

\* an ACTIVE entry that has been FADING before (its note sounds at the
\* start of the piece only) next to a FADING one of a recomputed note
C24_Witness ==
    /\ loaded /\ currentTime = 0 /\ now > 0
    /\ \E k \in activeKeys : core(renderedNotes[k]) = core(nFarExplicit)
    /\ \E k \in fadingKeys :
           /\ core(renderedNotes[k]) = core(nStringOnly)
           /\ renderedNotes[k].fadeStartTime < now

(* ------------------------ claims: time history ------------------------ *)
\* the trail map of a Fretboard mounted at this very tick, which has no
\* earlier playback time behind it
freshMap ==
    reconcile(EmptyMap,
              activePositionsOf(result', currentTime', isAutoHand', manualCenterFret'),
              now)

\* C25: the ACTIVE entries a tick leaves in the trail map are those of a
\* Fretboard that reached the same (payload, playback time, mode, manual
\* value) with no history at all, and in every state they are the active
\* set computed from the current values alone.
C25_HistoryIndependent ==
    /\ [][tick =>
             /\ {k \in DOMAIN renderedNotes' : ~renderedNotes'[k].isFading}
                    = DOMAIN freshMap
             /\ \A k \in DOMAIN freshMap : renderedNotes'[k] = freshMap[k]]_vars
    /\ [](loaded =>
             activeKeys = DOMAIN activePositionsOf(result, currentTime,
                                                   isAutoHand, manualCenterFret))

\* playback is back at the start of the piece after it has been at 1.00 s
\* or later: the note of the start is ACTIVE, the later one is FADING
C25_Witness ==
    /\ loaded /\ currentTime = 0 /\ isAutoHand
    /\ \E k \in activeKeys : core(renderedNotes[k]) = core(nFarExplicit)
    /\ \E k \in fadingKeys : core(renderedNotes[k]) = core(nExplicit)
    /\ currentCenterFret = 0 /\ currentBend = 0

(* ------------------------ claims: error handling ---------------------- *)
\* C26: in automatic mode, with a result that has its notes and duration,
\* an empty or absent hand_positions makes the center fret 0 and the render
\* does not throw.
C26_AutoDefaultsToZero ==
    (/\ result # NoResult /\ isAutoHand
     /\ has(result, "notes") /\ has(result, "duration")
     /\ (~has(result, "hand_positions") \/ result.hand_positions = <<>>))
        => (~crashed /\ currentCenterFret = 0)

\* C27: a response that lacks duration, notes or hand_positions never
\* becomes the current result.
C27_MalformedNeverAccepted ==
    result # NoResult =>
        /\ has(result, "duration")
        /\ has(result, "notes")
        /\ has(result, "hand_positions")

(* -------------------------- claims: fade timer ------------------------ *)
\* C28: a key becomes FADING only in a tick, out of ACTIVE, stamped with
\* the wall clock of that tick; while it stays FADING no step changes its
\* fadeStartTime; and an entry that stays ACTIVE is never given one.
C28_FadeStampFixed ==
    /\ [][\A k \in DOMAIN renderedNotes' :
             (renderedNotes'[k].isFading /\ k \notin fadingKeys) =>
                 /\ tick /\ k \in activeKeys
                 /\ renderedNotes'[k].fadeStartTime = now]_vars
    /\ [][\A k \in fadingKeys :
             (k \in DOMAIN renderedNotes' /\ renderedNotes'[k].isFading) =>
                 renderedNotes'[k].fadeStartTime = renderedNotes[k].fadeStartTime]_vars
    /\ [][\A k \in activeKeys :
             (k \in DOMAIN renderedNotes' /\ ~renderedNotes'[k].isFading) =>
                 ~has(renderedNotes'[k], "fadeStartTime")]_vars

\* a key that has been fading through a later tick (which set another key
\* fading) and through playback being paused
C28_Witness ==
    /\ loaded /\ ~isPlaying
    /\ \E j, k \in fadingKeys : age(j) >= 300 /\ age(k) > 0 /\ age(k) < age(j)

\* C29: a sweep takes out of the map exactly the FADING keys that are more
\* than 500 ms old and leaves every other entry as it was; when no key has
\* expired the map is the same map.
C29_SweepRemovesExpiredOnly ==
    [][Sweep =>
          /\ DOMAIN renderedNotes' = DOMAIN renderedNotes \ expiredKeys
          /\ \A k \in DOMAIN renderedNotes' : renderedNotes'[k] = renderedNotes[k]
          /\ expiredKeys = {} => renderedNotes' = renderedNotes]_vars

\* a sweep is due with an expired key and an unexpired FADING key in the
\* map
C29_Witness ==
    /\ loaded /\ sweepTimers # <<>> /\ sweepTimers[1] <= now
    /\ expiredKeys # {}
    /\ fadingKeys \ expiredKeys # {}

\* the instant of tick n of the paced playback
tickAt(n) == n * TickInterval

\* C30: a key that faded at tick 3, was resurrected at tick 4 and leaves
\* the active set again at tick 6 (instant T2) is ACTIVE without a
\* fadeStartTime at ticks 4 and 5, and from tick 6 on is FADING with
\* fadeStartTime = T2 and in the map at every instant up to T2 + 500, well
\* after the first fade would have run out.
C30_NewFadeCycle ==
    /\ tickNo = 3 =>
           \E k \in fadingKeys :
               /\ core(renderedNotes[k]) = core(result.notes[1])
               /\ renderedNotes[k].fadeStartTime = tickAt(3)
    /\ tickNo \in 4..5 =>
           \E k \in activeKeys :
               /\ core(renderedNotes[k]) = core(result.notes[2])
               /\ ~has(renderedNotes[k], "fadeStartTime")
    /\ (tickNo >= 6 /\ now <= tickAt(6) + FadeDuration) =>
           \E k \in fadingKeys :
               /\ core(renderedNotes[k]) = core(result.notes[2])
               /\ renderedNotes[k].fadeStartTime = tickAt(6)

C30_Witness ==
    /\ tickNo >= 6 /\ now = tickAt(6) + FadeDuration
    /\ now > tickAt(3) + FadeDuration + SweepInterval
    /\ \E k \in fadingKeys :
           /\ core(renderedNotes[k]) = core(result.notes[2])
           /\ renderedNotes[k].fadeStartTime = tickAt(6)

(* ----------------------- claims: a note changes key -------------------- *)
\* the key a note of the payload is drawn at, as a set: empty when the
\* note does not sound at t or has no position
resolvedKeys(n, res, t, auto, manual) ==
    IF ~inTimeWindow(n, t) THEN {}
    ELSE LET center == centerFretOf(res, t, auto, manual)
             note == assignFingering(n, res, t, auto, manual)
             pos == notePos(note, center)
         IN  IF pos # Null /\ shouldRender(note, pos, center)
             THEN {keyOf(pos)}
             ELSE {}

\* in this step note number j of the loaded result goes on sounding and is
\* resolved at another key than before
keyChanges(j) ==
    LET old == resolvedKeys(result.notes[j], result, currentTime, isAutoHand,
                            manualCenterFret)
        new == resolvedKeys(result.notes[j], result, currentTime', isAutoHand',
                            manualCenterFret')
    IN  old # {} /\ new # {} /\ old # new

oldKey(j) ==
    CHOOSE k \in resolvedKeys(result.notes[j], result, currentTime, isAutoHand,
                              manualCenterFret) : TRUE

newKey(j) ==
    CHOOSE k \in resolvedKeys(result.notes[j], result, currentTime', isAutoHand',
                              manualCenterFret') : TRUE

\* the keys some sounding note is resolved at after the step
keysAfter ==
    UNION { resolvedKeys(result.notes[j], result, currentTime', isAutoHand',
                         manualCenterFret') : j \in 1..Len(result.notes) }

\* C31 as stated: when a note that goes on sounding is resolved at another
\* key than at the tick before, the map after the step has the new key
\* ACTIVE and the old key FADING.
C31_OldKeyFades ==
    [][ (loaded /\ result' = result) =>
          \A j \in 1..Len(result.notes) :
              keyChanges(j) =>
                  /\ newKey(j) \in DOMAIN renderedNotes'
                  /\ ~renderedNotes'[newKey(j)].isFading
                  /\ oldKey(j) \in DOMAIN renderedNotes'
                  /\ renderedNotes'[oldKey(j)].isFading ]_vars

\* C31, amended: when a note that goes on sounding is resolved at another
\* key than at the tick before, the map after the step has the new key
\* ACTIVE, and the old key FADING with the time of the step as its
\* fadeStartTime, unless another sounding note is resolved at the old key,
\* which then stays ACTIVE for that note; the ACTIVE keys after the step are
\* exactly the keys of the sounding notes, one for each.
C31_KeyChangeHandsOver ==
    [][ (loaded /\ result' = result) =>
          /\ \A j \in 1..Len(result.notes) :
                keyChanges(j) =>
                    /\ newKey(j) \in DOMAIN renderedNotes'
                    /\ ~renderedNotes'[newKey(j)].isFading
                    /\ oldKey(j) \in DOMAIN renderedNotes'
                    /\ IF oldKey(j) \in keysAfter
                       THEN ~renderedNotes'[oldKey(j)].isFading
                       ELSE /\ renderedNotes'[oldKey(j)].isFading
                            /\ renderedNotes'[oldKey(j)].fadeStartTime = now
          /\ {k \in DOMAIN renderedNotes' : ~renderedNotes'[k].isFading}
                 = keysAfter ]_vars

\* the slider has moved the held note from fret 2 to fret 7: the new key is
\* ACTIVE and the old one FADING
C31_Witness ==
    /\ loaded /\ result \in ShiftPayloads
    /\ ~isAutoHand /\ manualCenterFret = 7 /\ currentTime = 0
    /\ <<2, 7>> \in DOMAIN renderedNotes /\ ~renderedNotes[<<2, 7>>].isFading
    /\ <<3, 2>> \in DOMAIN renderedNotes /\ renderedNotes[<<3, 2>>].isFading

(* ------------------- claims: notes at the same key --------------------- *)
\* the notes of the loaded result, by number, that sound now and are
\* resolved at key k
notesAt(k) ==
    {j \in 1..Len(result.notes) :
        resolvedKeys(result.notes[j], result, currentTime, isAutoHand,
                     manualCenterFret) = {k}}

\* the attributes a note brings to its entry, its position aside
attributes(n) == DOMAIN n \ {"string", "fret"}

\* C32: an ACTIVE key of the trail map holds one entry, and when several
\* sounding notes are resolved at that key the entry has the attributes of
\* the last of them in the order of the note list, and no others.
C32_LastNoteWins ==
    loaded =>
        \A k \in activeKeys :
            /\ notesAt(k) # {}
            /\ LET last == result.notes[Max(notesAt(k))]
               IN  /\ DOMAIN renderedNotes[k]
                          = attributes(last) \cup {"string", "fret", "pitch", "isFading"}
                   /\ \A f \in attributes(last) : renderedNotes[k][f] = last[f]
                   /\ keyOf(renderedNotes[k]) = k

\* two notes that differ in velocity sound at one key, and the one supplied
\* with that position comes first in the note list
C32_Witness ==
    /\ loaded
    /\ \E k \in activeKeys :
          /\ Cardinality(notesAt(k)) = 2
          /\ has(result.notes[Min(notesAt(k))], "string")
          /\ ~has(result.notes[Max(notesAt(k))], "string")
          /\ result.notes[Min(notesAt(k))].velocity
                 # result.notes[Max(notesAt(k))].velocity
          /\ renderedNotes[k].velocity = result.notes[Max(notesAt(k))].velocity

(* ------------------------ claims: a new session ------------------------ *)
\* C34: when an analysis is loaded after a Reset, the notes in the time
\* window, the center fret and the bend of the new session are those of
\* playback time 0.
C34_NewSessionStartsAtZero ==
    [][ (result = NoResult /\ result' # NoResult /\ ~crashed') =>
          /\ notesInTimeOf(result', currentTime') = notesInTimeOf(result', 0)
          /\ centerFretOf(result', currentTime', isAutoHand', manualCenterFret')
                 = centerFretOf(result', 0, isAutoHand', manualCenterFret')
          /\ currentBendOf(result', currentTime') = currentBendOf(result', 0)
      ]_vars

(* ---------------------- claims: the tick source ------------------------ *)
\* C33: at most one animation-frame callback is scheduled, and only while
\* a Player is mounted and isPlaying is true: pausing cancels it and none
\* remains after the Player is unmounted.
C33_OneChainWhilePlaying ==
    /\ Len(frames) <= 1
    /\ frames # <<>> => (result # NoResult /\ isPlaying)

(* -------------------- claims: the analysis request --------------------- *)
\* request i comes to its end in this step
ends(i) == Len(requests') < Len(requests) /\ requests' = remove(requests, i)

\* C35: the step in which an analysis request ends leaves analyzing false,
\* and when the request has failed (network error, non-OK response,
\* unparsable body) it leaves the result, the hand-tracking mode and the
\* audio URL as they were.
C35_FailedRequestChangesNothing ==
    [][ \A i \in 1..Len(requests) :
            ends(i) =>
                /\ analyzing' = FALSE
                /\ requests[i].outcome # "ok" =>
                       /\ result' = result
                       /\ isAutoHand' = isAutoHand
                       /\ audioUrl' = audioUrl ]_vars

\* a request has failed and none is in flight, while a visualisation is
\* shown in manual mode with an audio URL set
C35_Witness ==
    /\ alerts = 1 /\ requests = <<>> /\ ~analyzing
    /\ loaded /\ ~isAutoHand /\ audioUrl # 0

(* ------------------------ claims: the recorder ------------------------- *)
\* C36: the step in which the shared audio track ends while a system-audio
\* recording is in progress (the recorder staying mounted) stops the
\* recording: it leaves isRecording
\* false and the MediaRecorder out of the "recording" state, with its stop
\* event, which delivers the file, queued.
C36_TrackEndStopsRecording ==
    [][ (inputMode = "system" /\ isRecording /\ recorder = "recording"
            /\ trackLive /\ ~trackLive' /\ stream') =>
          (~isRecording' /\ recorder' # "recording" /\ stopEvent') ]_vars

====
